---- MODULE Spec2Model ----
(***************************************************************************)
(* MaskDropout and MaskDropoutV2                                           *)
(* (albumentations/augmentations/dropout/mask_dropout.py).                 *)
(*                                                                         *)
(* One transform instance is constructed and then used for a sequence of   *)
(* augmentation calls.  Each call runs get_params_dependent_on_targets on  *)
(* the mask, then apply on the image, then apply_to_mask on the mask.      *)
(***************************************************************************)
EXTENDS Integers, FiniteSets, Sequences

(***************************************************************************)
(* Bounds of the model.                                                    *)
(***************************************************************************)
\* the rasters drawn as inputs have two rows and W columns
W == 2
\* the integer count bounds given to MaskDropout range over -1..MaxCount
MaxCount == 2

\* default of image_fill_value and of mask_fill_value
DefaultFill == 0
\* the cap of the inpainting radius, min(3, ...)
MaxRadius == 3

Rows == 1..2
Pixels == Rows \X (1..W)
\* the values of mask pixels: 0 is background, 1 and 2 are instance ids
MaskValues == {0, 1, 2}
Masks == [Pixels -> MaskValues]
\* the channel counts of the images drawn as inputs
ChannelCounts == {1, 2, 3}
\* the values of image pixels (no image pixel holds the fill value 0)
ImageValues == {1, 2}
\* the images drawn as inputs: ch channels, and every pixel holds the same
\* value in each of them
Images == [ch : ChannelCounts, px : {[p \in Pixels |-> v] : v \in ImageValues}]

\* integer count bounds (min, max) MaskDropout is constructed with
CountBounds == (-1..MaxCount) \X (-1..MaxCount)
\* a fraction is <<numerator, denominator>>; the fractions below are exact
\* as floats
Fractions == {<<0, 1>>, <<1, 2>>, <<1, 1>>, <<3, 2>>}
\* the max_objects argument of MaskDropout: a number or a pair
MaxObjectsArgs == {<<"int", m>> : m \in -1..MaxCount}
                  \cup {<<"tuple", b>> : b \in CountBounds}
\* fraction bounds (fmin, fmax) MaskDropoutV2 is constructed with
FractionBounds == Fractions \X Fractions
\* image_fill_value: a number, or the string "inpaint"
FillValues == {<<"const", DefaultFill>>, <<"inpaint", DefaultFill>>}

\* Python's None and a present value
None == << >>
Some(x) == <<x>>

VARIABLES
    pc,                \* "new", "idle", "params", "image", "done", "error"
    cls,               \* "MaskDropout" or "MaskDropoutV2"
    max_objects,       \* self.max_objects
    image_fill_value,  \* self.image_fill_value
    mask_fill_value,   \* self.mask_fill_value
    params,            \* the params dict of the current call, with the
                       \* locals of get_params_dependent_on_targets
    img_in,            \* the image handed to apply
    img_out,           \* what apply returned
    mask_out,          \* what apply_to_mask returned
    raised,            \* the exception that ended the call, "" when none
    dropped_before     \* history: an earlier call on this instance got a
                       \* dropout mask

vars == <<pc, cls, max_objects, image_fill_value, mask_fill_value, params,
          img_in, img_out, mask_out, raised, dropped_before>>

(***************************************************************************)
(* Library functions the code calls.                                       *)
(***************************************************************************)
Abs(x) == IF x >= 0 THEN x ELSE 0 - x
Min(a, b) == IF a <= b THEN a ELSE b
Max(a, b) == IF a >= b THEN a ELSE b

\* skimage.measure.label's default connectivity for a 2-D input: the 8
\* neighbours of a pixel
Adjacent(p, q) == p # q /\ Abs(p[1] - q[1]) <= 1 /\ Abs(p[2] - q[2]) <= 1

\* the position of a pixel in raster order
RasterIndex(p) == (p[1] - 1) * W + p[2]

\* Mutant: pixels are connected whenever both are foreground.
SameObjectIgnoringValue(mask, p, q) == mask[p] # 0 /\ mask[q] # 0

\* label() joins two neighbouring pixels when they hold the same value
SameObject(mask, p, q) == mask[p] = mask[q]

RECURSIVE Grow(_, _)
Grow(mask, S) ==
    LET T == S \cup {q \in Pixels :
                       \E s \in S : Adjacent(s, q) /\ SameObject(mask, s, q)}
    IN IF T = S THEN S ELSE Grow(mask, T)

\* the connected component of a foreground pixel
Component(mask, p) == Grow(mask, {p})

Components(mask) == {Component(mask, p) : p \in {q \in Pixels : mask[q] # 0}}

FirstPixel(comp) == CHOOSE i \in {RasterIndex(p) : p \in comp} :
                       \A j \in {RasterIndex(p) : p \in comp} : i <= j

\* label(mask, return_num=True): <<label_image, num_labels>>.  Background
\* (value 0) is labelled 0, the components 1..N in raster order of their
\* first pixel.
label(mask) ==
    LET comps == Components(mask)
        id(comp) == Cardinality({d \in comps : FirstPixel(d) <= FirstPixel(comp)})
    IN <<[p \in Pixels |-> IF mask[p] = 0 THEN 0 ELSE id(Component(mask, p))],
         Cardinality(comps)>>

\* random.randint(a, b): the values it can return; it raises ValueError when
\* the range is empty
randint(a, b) == a..b
randint_raises(a, b) == a > b

\* random.sample(range(1, n + 1), k): the selections it can return, as the
\* sets of the ids drawn (the order of the list does not reach the mask); it
\* raises ValueError when k is negative or larger than the population
sample(n, k) == {S \in SUBSET (1..n) : Cardinality(S) = k}
sample_raises(n, k) == k < 0 \/ k > n

\* int(num_labels * f) for a fraction f: truncation towards zero
int_times(n, f) ==
    LET num == n * f[1]
    IN IF num >= 0 THEN num \div f[2] ELSE 0 - ((0 - num) \div f[2])

\* np.zeros((mask.shape[0], mask.shape[1]), dtype=bool)
zeros == [p \in Pixels |-> FALSE]

\* dropout_mask |= label_image == label_index, for every label_index
or_labels(label_image, labels_index) ==
    [p \in Pixels |-> zeros[p] \/ \E label_index \in labels_index :
                                       label_image[p] = label_index]

\* img[dropout_mask] = value, on a copy
fill(px, dropout_mask, value) ==
    [p \in Pixels |-> IF dropout_mask[p] THEN value ELSE px[p]]

\* cv2.boundingRect(dropout_mask): <<w, h>> of the bounding box of the true
\* pixels, <<0, 0>> when there is none
boundingRect(dropout_mask) ==
    LET on == {p \in Pixels : dropout_mask[p]}
        rows == {p[1] : p \in on}
        cols == {p[2] : p \in on}
        span(S) == (CHOOSE a \in S : \A b \in S : a >= b)
                   - (CHOOSE a \in S : \A b \in S : a <= b) + 1
    IN IF on = {} THEN <<0, 0>> ELSE <<span(cols), span(rows)>>

\* radius = min(3, max(w, h) // 2)
inpaint_radius(dropout_mask) ==
    LET wh == boundingRect(dropout_mask)
    IN Min(MaxRadius, Max(wh[1], wh[2]) \div 2)

\* cv2.inpaint accepts 1-channel and 3-channel 8-bit images and raises
\* cv2.error for any other channel count
inpaint_raises(img) == img.ch \notin {1, 3}

\* cv2.inpaint(img, dropout_mask, radius, cv2.INPAINT_NS): the pixels under
\* the mask are reconstructed from the pixels around them (here: to some
\* image value), the others are kept
inpaint(img, dropout_mask, radius) ==
    {[img EXCEPT !.px = fill(img.px, dropout_mask, v)] : v \in ImageValues}

(***************************************************************************)
(* MaskDropout                                                             *)
(***************************************************************************)
\* to_tuple(max_objects, 1): a pair is kept; a number m becomes (1, m), or
\* (m, 1) when m <= 1
to_tuple(param, low) ==
    IF param[1] = "int"
    THEN (IF low < param[2] THEN <<low, param[2]>> ELSE <<param[2], low>>)
    ELSE param[2]

\* what get_params_dependent_on_targets leaves when it raises ValueError
Raised(mask, li, drawn) ==
    [raised |-> "ValueError", mask |-> mask, label_image |-> li[1],
     num_labels |-> li[2], objects_to_drop |-> drawn, labels_index |-> None,
     dropout_mask |-> None]

\* what get_params_dependent_on_targets leaves when it returns
Returned(mask, li, drawn, labels_index, dropout_mask) ==
    [raised |-> "", mask |-> mask, label_image |-> li[1],
     num_labels |-> li[2], objects_to_drop |-> drawn,
     labels_index |-> labels_index, dropout_mask |-> dropout_mask]

\* Mutant: the mask is taken for a binary one, dropout_mask = mask == 1.
mask_eq_1(mask) == [p \in Pixels |-> mask[p] = 1]

\* dropout_mask = mask > 0
mask_gt_0(mask) == [p \in Pixels |-> mask[p] > 0]

\* Mutant: drawing no object gives no dropout mask at all.
sample_and_build_none_when_empty(mask, li, objects_to_drop) ==
    IF sample_raises(li[2], objects_to_drop)
    THEN {Raised(mask, li, Some(objects_to_drop))}
    ELSE {Returned(mask, li, Some(objects_to_drop), Some(labels_index),
                   IF labels_index = {} THEN None
                   ELSE Some(or_labels(li[1], labels_index))) :
            labels_index \in sample(li[2], objects_to_drop)}

\* the sampling branch: labels_index = random.sample(...), then the loop
\* that ORs label_image == label_index into a raster of zeros
sample_and_build(mask, li, objects_to_drop) ==
    IF sample_raises(li[2], objects_to_drop)
    THEN {Raised(mask, li, Some(objects_to_drop))}
    ELSE {Returned(mask, li, Some(objects_to_drop), Some(labels_index),
                   Some(or_labels(li[1], labels_index))) :
            labels_index \in sample(li[2], objects_to_drop)}

\* Mutant: the drawn count is clipped with max instead of min.
clip_with_max(num_labels, drawn) == Max(num_labels, drawn)

\* objects_to_drop = min(num_labels, objects_to_drop)
clip(num_labels, drawn) == Min(num_labels, drawn)

\* MaskDropout.get_params_dependent_on_targets: every outcome it can have
\* on a mask, for the instance's max_objects
MaskDropout_get_params(mask, max_objs) ==
    LET li == label(mask)
        num_labels == li[2]
    IN IF num_labels = 0
       THEN {Returned(mask, li, None, None, None)}
       ELSE IF randint_raises(max_objs[1], max_objs[2])
       THEN {Raised(mask, li, None)}
       ELSE UNION {
              LET objects_to_drop == clip(num_labels, drawn)
              IN IF objects_to_drop = num_labels
                 THEN {Returned(mask, li, Some(objects_to_drop), None,
                                Some(mask_gt_0(mask)))}
                 ELSE sample_and_build(mask, li, objects_to_drop)
              : drawn \in randint(max_objs[1], max_objs[2])}

\* Mutant: apply without its "dropout_mask is None" guard; numpy's
\* img[None] = value then writes every pixel.
MaskDropout_apply_unguarded(img, dropout_mask, fill_value) ==
    LET dm == IF dropout_mask = None THEN [p \in Pixels |-> TRUE]
              ELSE dropout_mask[1]
    IN {[raised |-> "",
         out |-> [img EXCEPT !.px = fill(img.px, dm, fill_value[2])],
         filled |-> {p \in Pixels : dm[p]}]}

\* MaskDropout.apply: every outcome on an image; filled is the set of
\* pixels it wrote
MaskDropout_apply(img, dropout_mask, fill_value) ==
    IF dropout_mask = None
    THEN {[raised |-> "", out |-> img, filled |-> {}]}
    ELSE LET on == {p \in Pixels : dropout_mask[1][p]}
         IN IF fill_value[1] = "inpaint"
            THEN IF inpaint_raises(img)
                 THEN {[raised |-> "cv2.error", out |-> img, filled |-> {}]}
                 ELSE {[raised |-> "", out |-> r, filled |-> on] :
                         r \in inpaint(img, dropout_mask[1],
                                      inpaint_radius(dropout_mask[1]))}
            ELSE {[raised |-> "",
                   out |-> [img EXCEPT
                              !.px = fill(img.px, dropout_mask[1], fill_value[2])],
                   filled |-> on]}

\* Mutant: apply_to_mask derives its own region, every foreground pixel,
\* instead of using the dropout mask of the call.
MaskDropout_apply_to_mask_own_region(img, dropout_mask, fill_value) ==
    IF dropout_mask = None
    THEN [out |-> img, filled |-> {}]
    ELSE [out |-> fill(img, mask_gt_0(img), fill_value),
          filled |-> {p \in Pixels : img[p] > 0}]

\* MaskDropout.apply_to_mask
MaskDropout_apply_to_mask(img, dropout_mask, fill_value) ==
    IF dropout_mask = None
    THEN [out |-> img, filled |-> {}]
    ELSE [out |-> fill(img, dropout_mask[1], fill_value),
          filled |-> {p \in Pixels : dropout_mask[1][p]}]

(***************************************************************************)
(* MaskDropoutV2                                                           *)
(***************************************************************************)
\* MaskDropoutV2.get_params_dependent_on_targets
MaskDropoutV2_get_params(mask, max_objs) ==
    LET li == label(mask)
        num_labels == li[2]
        lo == int_times(num_labels, max_objs[1])
        hi == int_times(num_labels, max_objs[2])
    IN IF num_labels = 0
       THEN {Returned(mask, li, None, None, None)}
       ELSE IF randint_raises(lo, hi)
       THEN {Raised(mask, li, None)}
       ELSE UNION {sample_and_build(mask, li, objects_to_drop) :
                     objects_to_drop \in randint(lo, hi)}

\* MaskDropoutV2.apply
MaskDropoutV2_apply(img, dropout_mask, fill_value) ==
    IF dropout_mask = None
    THEN {[raised |-> "", out |-> img, filled |-> {}]}
    ELSE LET on == {p \in Pixels : dropout_mask[1][p]}
         IN IF fill_value[1] = "inpaint"
            THEN IF inpaint_raises(img)
                 THEN {[raised |-> "cv2.error", out |-> img, filled |-> {}]}
                 ELSE {[raised |-> "", out |-> r, filled |-> on] :
                         r \in inpaint(img, dropout_mask[1],
                                      inpaint_radius(dropout_mask[1]))}
            ELSE {[raised |-> "",
                   out |-> [img EXCEPT
                              !.px = fill(img.px, dropout_mask[1], fill_value[2])],
                   filled |-> on]}

\* MaskDropoutV2.apply_to_mask
MaskDropoutV2_apply_to_mask(img, dropout_mask, fill_value) ==
    IF dropout_mask = None
    THEN [out |-> img, filled |-> {}]
    ELSE [out |-> fill(img, dropout_mask[1], fill_value),
          filled |-> {p \in Pixels : dropout_mask[1][p]}]

(***************************************************************************)
(* The state machine                                                       *)
(***************************************************************************)
Init ==
    /\ pc = "new"
    /\ cls = ""
    /\ max_objects = None
    /\ image_fill_value = None
    /\ mask_fill_value = DefaultFill
    /\ params = None
    /\ img_in = None
    /\ img_out = None
    /\ mask_out = None
    /\ raised = ""
    /\ dropped_before = FALSE

\* MaskDropout.__init__(max_objects, image_fill_value, mask_fill_value)
MaskDropout__init__ ==
    /\ pc = "new"
    /\ \E arg \in MaxObjectsArgs, ifv \in FillValues :
         /\ cls' = "MaskDropout"
         /\ max_objects' = to_tuple(arg, 1)
         /\ image_fill_value' = ifv
    /\ mask_fill_value' = DefaultFill
    /\ pc' = "idle"
    /\ UNCHANGED <<params, img_in, img_out, mask_out, raised, dropped_before>>

\* MaskDropoutV2.__init__(max_objects, image_fill_value, mask_fill_value)
MaskDropoutV2__init__ ==
    /\ pc = "new"
    /\ \E arg \in FractionBounds, ifv \in FillValues :
         /\ cls' = "MaskDropoutV2"
         /\ max_objects' = arg
         /\ image_fill_value' = ifv
    /\ mask_fill_value' = DefaultFill
    /\ pc' = "idle"
    /\ UNCHANGED <<params, img_in, img_out, mask_out, raised, dropped_before>>

\* get_params_dependent_on_targets({"mask": mask}) opens an augmentation
\* call on an instance that runs none
get_params_dependent_on_targets ==
    /\ pc = "idle"
    /\ \E mask \in Masks :
         \E r \in (IF cls = "MaskDropout"
                   THEN MaskDropout_get_params(mask, max_objects)
                   ELSE MaskDropoutV2_get_params(mask, max_objects)) :
            /\ params' = r
            /\ raised' = r.raised
            /\ pc' = IF r.raised = "" THEN "params" ELSE "error"
    /\ img_in' = None
    /\ img_out' = None
    /\ mask_out' = None
    /\ UNCHANGED <<cls, max_objects, image_fill_value, mask_fill_value,
                   dropped_before>>

\* apply(img, **params) on the image of the call
apply ==
    /\ pc = "params"
    /\ \E img \in Images :
         \E r \in (IF cls = "MaskDropout"
                   THEN MaskDropout_apply(img, params.dropout_mask,
                                          image_fill_value)
                   ELSE MaskDropoutV2_apply(img, params.dropout_mask,
                                            image_fill_value)) :
            /\ img_in' = Some(img)
            /\ img_out' = IF r.raised = "" THEN Some(r) ELSE None
            /\ raised' = r.raised
            /\ pc' = IF r.raised = "" THEN "image" ELSE "error"
    /\ UNCHANGED <<cls, max_objects, image_fill_value, mask_fill_value,
                   params, mask_out, dropped_before>>

\* apply_to_mask(mask, **params) on the mask of the call
apply_to_mask ==
    /\ pc = "image"
    /\ mask_out' = Some(IF cls = "MaskDropout"
                        THEN MaskDropout_apply_to_mask(
                                 params.mask, params.dropout_mask,
                                 mask_fill_value)
                        ELSE MaskDropoutV2_apply_to_mask(
                                 params.mask, params.dropout_mask,
                                 mask_fill_value))
    /\ pc' = "done"
    /\ UNCHANGED <<cls, max_objects, image_fill_value, mask_fill_value,
                   params, img_in, img_out, raised, dropped_before>>

\* the call is over (it returned or it raised): its params dict, its inputs
\* and its results are dropped; the instance is kept for the next call
end_call ==
    /\ pc \in {"done", "error"}
    /\ pc' = "idle"
    /\ params' = None
    /\ img_in' = None
    /\ img_out' = None
    /\ mask_out' = None
    /\ raised' = ""
    /\ dropped_before' = (dropped_before \/ params.dropout_mask # None)
    /\ UNCHANGED <<cls, max_objects, image_fill_value, mask_fill_value>>

Next ==
    \/ MaskDropout__init__
    \/ MaskDropoutV2__init__
    \/ get_params_dependent_on_targets
    \/ apply
    \/ apply_to_mask
    \/ end_call

Spec == Init /\ [][Next]_vars

(***************************************************************************)
(* Properties                                                              *)
(***************************************************************************)
\* get_params_dependent_on_targets of the current call has returned
Returned_params == pc \in {"params", "image", "done"}
\* the count handed to the selection was computed in the current call
Count_drawn == params # None /\ params.objects_to_drop # None
Constant_fill == image_fill_value # None /\ image_fill_value[1] = "const"
Inpaint_fill == image_fill_value # None /\ image_fill_value[1] = "inpaint"
\* the pixels whose value differs between two rasters
Changed(before, after) == {p \in Pixels : before[p] # after[p]}
\* the mask with every nonzero value replaced by 1
Binarize(mask) == [p \in Pixels |-> IF mask[p] = 0 THEN 0 ELSE 1]

\* the bounds the documentation of the transform allows: 0 <= min <= max
\* for counts, 0 <= fmin <= fmax <= 1 for fractions
ValidBounds ==
    IF cls = "MaskDropout"
    THEN 0 <= max_objects[1] /\ max_objects[1] <= max_objects[2]
    ELSE /\ 0 <= max_objects[1][1]
         /\ max_objects[1][1] * max_objects[2][2]
              <= max_objects[2][1] * max_objects[1][2]
         /\ max_objects[2][1] <= max_objects[2][2]

\* C1: when a call is done, apply and apply_to_mask have written the same
\* set of pixels, the true pixels of the one dropout mask the call computed;
\* with a constant fill these are exactly the pixels whose value changed in
\* the image and exactly those whose value changed in the mask.
C1_SameFootprint ==
    pc = "done" =>
      /\ img_out[1].filled = mask_out[1].filled
      /\ params.dropout_mask # None =>
           img_out[1].filled = {p \in Pixels : params.dropout_mask[1][p]}
      /\ Constant_fill =>
           /\ Changed(img_in[1].px, img_out[1].out.px) = img_out[1].filled
           /\ Changed(params.mask, mask_out[1].out) = mask_out[1].filled

\* C1 witness: a MaskDropoutV2 call is done that inpainted some, but not
\* all, of the foreground pixels.
C1_Witness ==
    /\ pc = "done"
    /\ cls = "MaskDropoutV2"
    /\ Inpaint_fill
    /\ mask_out[1].filled # {}
    /\ mask_out[1].filled # {p \in Pixels : params.mask[p] # 0}

\* C2: the count handed to the selection lies within the configured bounds
\* clipped to [0, N]: min(k, N) for a k in [min, max] under MaskDropout,
\* within [int(N * fmin), int(N * fmax)] under MaskDropoutV2, and in both
\* cases never negative and never above N.
C2_CountWithinBounds ==
    Count_drawn =>
      LET n == params.num_labels
          count == params.objects_to_drop[1]
      IN /\ 0 <= count
         /\ count <= n
         /\ IF cls = "MaskDropout"
            THEN \E k \in max_objects[1]..max_objects[2] : count = Min(k, n)
            ELSE /\ int_times(n, max_objects[1]) <= count
                 /\ count <= int_times(n, max_objects[2])

\* C3: whenever N > 0 the dropout mask returned is true exactly at the
\* pixels labelled with an id of S, where S is a set of ids of 1..N whose
\* size is the drawn count; S is the sample drawn, and all of 1..N on the
\* path that takes mask > 0 without sampling.
C3_MaskIsSelection ==
    (Returned_params /\ params.num_labels > 0) =>
      LET S == IF params.labels_index = None
               THEN 1..params.num_labels
               ELSE params.labels_index[1]
      IN /\ params.dropout_mask # None
         /\ S \subseteq 1..params.num_labels
         /\ Cardinality(S) = params.objects_to_drop[1]
         /\ \A p \in Pixels :
              params.dropout_mask[1][p] <=> params.label_image[p] \in S

\* C3 witness: the path without sampling was taken on a mask of at least two
\* components that holds a value other than 1.
C3_Witness ==
    /\ pc = "params"
    /\ params.num_labels >= 2
    /\ params.labels_index = None
    /\ params.dropout_mask # None
    /\ \E p \in Pixels : params.mask[p] > 1

\* C4: a call on a mask without foreground returns the image and the mask
\* it was given and writes no pixel, whatever the earlier calls on the
\* instance did.
C4_NoForegroundIsIdentity ==
    (params # None /\ params.raised = "" /\ params.num_labels = 0) =>
      /\ pc # "error"
      /\ params.dropout_mask = None
      /\ pc \in {"image", "done"} =>
           (img_out[1].out = img_in[1] /\ img_out[1].filled = {})
      /\ pc = "done" =>
           (mask_out[1].out = params.mask /\ mask_out[1].filled = {})

\* C4 witness: such a call is done on an instance of which an earlier call
\* got a dropout mask.
C4_Witness ==
    /\ pc = "done"
    /\ params.num_labels = 0
    /\ dropped_before

\* C5: MaskDropout with max_objects = 1 (stored as (1, 1)) and a constant
\* fill, on a mask of at least two components: there is one component whose
\* pixels hold the fill value in the image and in the mask returned, and
\* every other pixel holds in both what it held in the inputs.
C5_OneObjectDropped ==
    (/\ pc = "done"
     /\ cls = "MaskDropout"
     /\ max_objects = <<1, 1>>
     /\ Constant_fill
     /\ params.num_labels >= 2) =>
      \E c \in 1..params.num_labels :
        \A p \in Pixels :
          IF params.label_image[p] = c
          THEN /\ img_out[1].out.px[p] = image_fill_value[2]
               /\ mask_out[1].out[p] = mask_fill_value
          ELSE /\ img_out[1].out.px[p] = img_in[1].px[p]
               /\ mask_out[1].out[p] = params.mask[p]

\* C5 witness: such a call is done.
C5_Witness ==
    /\ pc = "done"
    /\ cls = "MaskDropout"
    /\ max_objects = <<1, 1>>
    /\ Constant_fill
    /\ params.num_labels >= 2

\* C6: no instance exists whose count bounds are invalid (min > max, a
\* negative bound, a fraction outside [0, 1], fmin > fmax): the constructor
\* has raised instead.
C6_NoInvalidInstance == pc # "new" => ValidBounds

\* C7: apply with "inpaint" and a dropout mask on an image whose channel
\* count is not 3 raises and returns no image (stated for an instance with
\* valid bounds).
C7_InpaintNeedsThreeChannels ==
    (/\ img_in # None
     /\ ValidBounds
     /\ Inpaint_fill
     /\ params.dropout_mask # None
     /\ img_in[1].ch # 3) =>
      (pc = "error" /\ raised # "" /\ img_out = None)

\* C8: get_params_dependent_on_targets never hands random.sample a count
\* above the number N of labels, and so never raises for it.
C8_CountNeverAboveLabels ==
    Count_drawn =>
      /\ params.objects_to_drop[1] <= params.num_labels
      /\ ~(params.raised = "ValueError" /\ params.objects_to_drop[1] > 0)

\* C9 (as claimed): when get_params_dependent_on_targets returns, on an
\* instance with valid bounds, the label image and N are those of the
\* binarized mask, and two adjacent nonzero pixels always share a label.
C9_LabelsIgnoreValues ==
    (pc = "params" /\ ValidBounds) =>
      /\ <<params.label_image, params.num_labels>>
           = label(Binarize(params.mask))
      /\ \A p, q \in Pixels :
           (Adjacent(p, q) /\ params.mask[p] # 0 /\ params.mask[q] # 0)
             => params.label_image[p] = params.label_image[q]

\* C9 (amended): labels follow values.  When
\* get_params_dependent_on_targets returns, a pixel is labelled 0 exactly when
\* it is background; two adjacent nonzero pixels share a label exactly when
\* they hold the same value; pixels that share a label hold the same value;
\* the labels used are exactly 1..N; and a mask whose nonzero pixels all hold
\* one value gets the label image and the N of its binarized mask.
C9_LabelsFollowValues ==
    pc = "params" =>
      LET mask == params.mask
          label_image == params.label_image
      IN /\ \A p \in Pixels : label_image[p] = 0 <=> mask[p] = 0
         /\ \A p, q \in Pixels :
              (Adjacent(p, q) /\ mask[p] # 0 /\ mask[q] # 0)
                => (label_image[p] = label_image[q] <=> mask[p] = mask[q])
         /\ \A p, q \in Pixels :
              (label_image[p] = label_image[q]) => mask[p] = mask[q]
         /\ {label_image[p] : p \in Pixels} \ {0} = 1..params.num_labels
         /\ Cardinality({mask[p] : p \in Pixels} \ {0}) <= 1
              => <<label_image, params.num_labels>> = label(Binarize(mask))

\* C9 witness: two adjacent nonzero pixels of different values were labelled,
\* and two adjacent pixels of the same value.
C9_Witness ==
    /\ pc = "params"
    /\ \E p, q \in Pixels :
         /\ Adjacent(p, q)
         /\ params.mask[p] = 1
         /\ params.mask[q] = 2
    /\ \E p, q \in Pixels :
         /\ Adjacent(p, q)
         /\ params.mask[p] = 2
         /\ params.mask[q] = 2

\* C10 (as claimed): on an instance with valid bounds, whenever the
\* selection is empty, because N = 0 or because the count drawn is 0, the
\* dropout mask is None.
C10_EmptySelectionIsNone ==
    (Returned_params /\ ValidBounds
       /\ (params.num_labels = 0
             \/ (Count_drawn /\ params.objects_to_drop[1] = 0))) =>
      params.dropout_mask = None

\* C10 (amended): the dropout mask is None exactly when N = 0.  When N > 0
\* and the count drawn is 0 it is a raster that is false everywhere; apply
\* and apply_to_mask then take the fill path, write no pixel, and what they
\* return holds the values of their inputs.
C10_NoneOnlyWithoutLabels ==
    Returned_params =>
      /\ params.dropout_mask = None <=> params.num_labels = 0
      /\ (params.num_labels > 0 /\ params.objects_to_drop[1] = 0) =>
           /\ params.dropout_mask = Some(zeros)
           /\ pc \in {"image", "done"} =>
                (img_out[1].out = img_in[1] /\ img_out[1].filled = {})
           /\ pc = "done" =>
                (mask_out[1].out = params.mask /\ mask_out[1].filled = {})

\* C10 witness: a call on a mask with foreground drew the count 0 and is
\* done.
C10_Witness ==
    /\ pc = "done"
    /\ params.num_labels > 0
    /\ params.objects_to_drop[1] = 0

====
